---- MODULE Spec2Model ----
(***************************************************************************)
(* A model of twilight-interaction's Handler (src/src/handler.rs): the     *)
(* HandlerBuilder and its build(), the router Handler::handle, the gateway *)
(* entry point handle_event, the webhook entry point handle_request with   *)
(* process(), and run_deferred.                                            *)
(*                                                                         *)
(* What lies outside the repository is modelled by its outcomes: an HTTP   *)
(* request of twilight_http either cannot be built (its builder returned   *)
(* Err), or is issued and then succeeds or fails; the closures supplied by *)
(* the user return one of a few sample values; a DeferredFuture is the     *)
(* CallbackData it resolves to; an ed25519 signature is a byte string that *)
(* verifies exactly for the key and message it was made for.               *)
(*                                                                         *)
(* A Handler is immutable once built and its entry points take &self, so   *)
(* calls do not interact: the model runs one call at a time.               *)
(***************************************************************************)
EXTENDS Integers, Sequences, FiniteSets, TLC

\* ------------------------------------------------------------------ bounds

\* The number of commands given to a HandlerBuilder, over all its lists.
MaxCommands == 2
\* The bytes of a signature (ed25519_dalek::SIGNATURE_LENGTH is 64).
SigLen == 2

\* ----------------------------------------------------------------- options

None == <<>>
Some(x) == <<x>>
IsSome(o) == o # <<>>
Unwrap(o) == o[1]

\* ------------------------------------------------------------ sample data

GuildIds == {1, 2}
\* The ids Discord gives to registered commands.
CommandIds == {1, 2}
CommandKinds == {"Slash", "Message", "User"}
Keys == {1, 2}

EMPTY_CALLBACK ==
    [allowed_mentions |-> None, components |-> None, content |-> None,
     embeds |-> <<>>, flags |-> None, tts |-> None]

\* A CallbackData with only its content set.
Plain == [EMPTY_CALLBACK EXCEPT !.content = Some("pong")]
\* A CallbackData with every field set.
Rich ==
    [allowed_mentions |-> Some("users"), components |-> Some(<<"button">>),
     content |-> Some("done"), embeds |-> <<"embed">>,
     flags |-> Some("EPHEMERAL"), tts |-> Some(TRUE)]

\* The CallbackData of the router's own error replies.
ErrorCallback(text) ==
    [EMPTY_CALLBACK EXCEPT !.content = Some(text), !.flags = Some("EPHEMERAL")]

\* twilight_model's InteractionResponse.
Pong == [type |-> "Pong", data |-> None]
ChannelMessageWithSource(d) == [type |-> "ChannelMessageWithSource", data |-> Some(d)]
DeferredChannelMessageWithSource(d) ==
    [type |-> "DeferredChannelMessageWithSource", data |-> Some(d)]
UpdateMessage(d) == [type |-> "UpdateMessage", data |-> Some(d)]
DeferredUpdateMessage == [type |-> "DeferredUpdateMessage", data |-> None]

\* A DeferredFuture, known by the CallbackData it resolves to.
Future(d) == [output |-> d]

\* What the user's closures return in one call: a slash handler's Result, a
\* message or user handler's pair, and the component handler's ComponentResponse.
UserResults ==
    { [slash |-> [ok |-> TRUE, val |-> <<ChannelMessageWithSource(Plain), None>>, err |-> ""],
       pair |-> <<ChannelMessageWithSource(Plain), None>>,
       component |-> [variant |-> "Message", data |-> Some(Plain), future |-> None]],
      [slash |-> [ok |-> TRUE,
                  val |-> <<DeferredChannelMessageWithSource(EMPTY_CALLBACK), Some(Future(Rich))>>,
                  err |-> ""],
       pair |-> <<DeferredChannelMessageWithSource(EMPTY_CALLBACK), Some(Future(Rich))>>,
       component |-> [variant |-> "DeferredMessage", data |-> None, future |-> Some(Future(Rich))]],
      [slash |-> [ok |-> FALSE, val |-> <<Pong, None>>, err |-> "count"],
       pair |-> <<ChannelMessageWithSource(Rich), None>>,
       component |-> [variant |-> "Update", data |-> Some(Rich), future |-> None]],
      [slash |-> [ok |-> TRUE, val |-> <<ChannelMessageWithSource(Plain), Some(Future(Plain))>>,
                  err |-> ""],
       pair |-> <<ChannelMessageWithSource(Plain), Some(Future(Plain))>>,
       component |-> [variant |-> "DeferredUpdate", data |-> None, future |-> Some(Future(Plain))]] }

\* The id and token of an incoming interaction.
Origins == { [id |-> 1, token |-> "tokenA"], [id |-> 2, token |-> "tokenB"] }

\* CommandData.resolved.
Resolveds ==
    { None,
      Some([messages |-> <<7>>, users |-> <<>>]),
      Some([messages |-> <<>>, users |-> <<9>>]),
      Some([messages |-> <<7, 8>>, users |-> <<9>>]) }

\* CommandData: the id and name of the command invoked (3 is never registered).
Commands == { [id |-> 1, name |-> "frob"], [id |-> 2, name |-> "greet"],
              [id |-> 3, name |-> "gone"] }

NoData == [id |-> 0, name |-> "", resolved |-> None]

\* twilight_model's Interaction, a non-exhaustive enum: "Other" stands for any
\* variant but Ping, ApplicationCommand and MessageComponent.
Interactions ==
    { [kind |-> k, id |-> o.id, token |-> o.token, data |-> NoData] :
        k \in {"Ping", "MessageComponent", "Other"}, o \in Origins }
    \cup
    { [kind |-> "ApplicationCommand", id |-> o.id, token |-> o.token,
       data |-> [id |-> c.id, name |-> c.name, resolved |-> r]] :
        o \in Origins, c \in Commands, r \in Resolveds }

\* ----------------------------------------------------------------- router

\* CommandHandler::handle: the pair returned, and whether the user's closure ran.
CommandHandler_handle(handler, data, u) ==
    CASE handler.kind = "Slash" ->
           [pair |-> IF u.slash.ok
                     THEN u.slash.val
                     ELSE <<ChannelMessageWithSource(
                                ErrorCallback("Invalid option '" \o u.slash.err \o "'")), None>>,
            user_fn |-> TRUE]
      [] handler.kind = "Message" ->
           IF IsSome(data.resolved) /\ Len(Unwrap(data.resolved).messages) = 1
           THEN [pair |-> u.pair, user_fn |-> TRUE]
           ELSE [pair |-> <<ChannelMessageWithSource(
                                ErrorCallback("Invalid message command recieved")), None>>,
                 user_fn |-> FALSE]
      [] handler.kind = "User" ->
           IF IsSome(data.resolved) /\ Len(Unwrap(data.resolved).users) = 1
           THEN [pair |-> u.pair, user_fn |-> TRUE]
           ELSE [pair |-> <<ChannelMessageWithSource(
                                ErrorCallback("Invalid user command recieved")), None>>,
                 user_fn |-> FALSE]

\* The loop of Handler::handle over command_handlers: the index of the first
\* entry from i on whose id is `id`, or 0.
RECURSIVE ScanFrom(_, _, _)
ScanFrom(handlers, i, id) ==
    IF i > Len(handlers) THEN 0
    ELSE IF handlers[i].id = id THEN i
    ELSE ScanFrom(handlers, i + 1, id)

\* The scan, were it to keep the last entry with the id instead of returning
\* at the first.
LastMatch(handlers, id) ==
    LET hits == { i \in 1..Len(handlers) : handlers[i].id = id }
    IN  IF hits = {} THEN 0 ELSE CHOOSE i \in hits : \A j \in hits : j <= i

\* The entry Handler::handle calls for a command id, or 0.
FirstMatch(handlers, id) == ScanFrom(handlers, 1, id)

\* The match on the ComponentResponse, with Update answered as a new message
\* and the future of DeferredUpdate dropped.
ComponentSwapped(c) ==
    CASE c.variant = "Message" -> <<ChannelMessageWithSource(Unwrap(c.data)), None>>
      [] c.variant = "DeferredMessage" ->
           <<DeferredChannelMessageWithSource(EMPTY_CALLBACK), c.future>>
      [] c.variant = "Update" -> <<ChannelMessageWithSource(Unwrap(c.data)), None>>
      [] c.variant = "DeferredUpdate" -> <<DeferredUpdateMessage, None>>

\* The match of Handler::handle on the ComponentResponse.
FromComponentResponse(c) ==
    CASE c.variant = "Message" -> <<ChannelMessageWithSource(Unwrap(c.data)), None>>
      [] c.variant = "DeferredMessage" ->
           <<DeferredChannelMessageWithSource(EMPTY_CALLBACK), c.future>>
      [] c.variant = "Update" -> <<UpdateMessage(Unwrap(c.data)), None>>
      [] c.variant = "DeferredUpdate" -> <<DeferredUpdateMessage, c.future>>

NoResponse == [response |-> Pong, future |-> None, id |-> 0, token |-> ""]

Response(pair, interaction) ==
    [response |-> pair[1], future |-> pair[2], id |-> interaction.id,
     token |-> interaction.token]

\* The wildcard arm of Handler::handle: todo!() panics.
OtherKind(interaction) ==
    [panic |-> TRUE, result |-> NoResponse, calls |-> <<>>]

\* Handler::handle: whether it panicked, the Response it returned, and the
\* handlers it called, in order (an index of command_handlers, or 0 for the
\* component handler).
handle(handlers, component, interaction, u) ==
    CASE interaction.kind = "Ping" ->
           [panic |-> FALSE, result |-> Response(<<Pong, None>>, interaction),
            calls |-> <<>>]
      [] interaction.kind = "ApplicationCommand" ->
           LET i == FirstMatch(handlers, interaction.data.id)
           IN  IF i # 0
               THEN LET r == CommandHandler_handle(handlers[i], interaction.data, u)
                    IN  [panic |-> FALSE, result |-> Response(r.pair, interaction),
                         calls |-> <<[handler |-> i, user_fn |-> r.user_fn]>>]
               ELSE [panic |-> FALSE,
                     result |-> Response(
                         <<ChannelMessageWithSource(ErrorCallback(
                               "Unknown command '/" \o interaction.data.name \o "'")), None>>,
                         interaction),
                     calls |-> <<>>]
      [] interaction.kind = "MessageComponent" ->
           IF component
           THEN [panic |-> FALSE,
                 result |-> Response(FromComponentResponse(u.component), interaction),
                 calls |-> <<[handler |-> 0, user_fn |-> TRUE]>>]
           ELSE [panic |-> FALSE,
                 result |-> Response(
                     <<ChannelMessageWithSource(ErrorCallback(
                           "Error: no message component handler registered")), None>>,
                     interaction),
                 calls |-> <<>>]
      [] OTHER -> OtherKind(interaction)


\* ---------------------------------------------------------------- webhook

\* Bytes are numbers in 0..255; a header value is the string of its ASCII codes.
RECURSIVE Weighted(_, _)
Weighted(bytes, i) ==
    IF i > Len(bytes) THEN 0 ELSE i * bytes[i] + Weighted(bytes, i + 1)

\* The digest an ed25519 signature is made over, reduced to one byte.
Digest(bytes) == Weighted(bytes, 1) % 256

\* The signature key k makes for a message: SigLen bytes.
Sign(k, message) ==
    [i \in 1..SigLen |-> IF i = 1 THEN k ELSE IF i = 2 THEN Digest(message) ELSE 0]

\* ed25519_dalek's Verifier::verify for the public key pk.
Verify(pk, message, signature) == signature = Sign(pk, message)

HexDigit(n) == IF n < 10 THEN 48 + n ELSE 87 + n

\* hex::encode.
RECURSIVE ToHex(_)
ToHex(bytes) ==
    IF bytes = <<>> THEN <<>>
    ELSE <<HexDigit(Head(bytes) \div 16), HexDigit(Head(bytes) % 16)>> \o ToHex(Tail(bytes))

\* The value of a hex digit, or -1.
HexVal(c) ==
    IF c >= 48 /\ c <= 57 THEN c - 48
    ELSE IF c >= 97 /\ c <= 102 THEN c - 87
    ELSE IF c >= 65 /\ c <= 70 THEN c - 55
    ELSE -1

\* hex::FromHex for [u8; SIGNATURE_LENGTH]: Some(bytes), or None for an odd
\* length, a length other than two digits a byte, or a character that is no
\* hex digit.
FromHex(s) ==
    IF Len(s) % 2 # 0 \/ Len(s) # 2 * SigLen \/ \E i \in 1..Len(s) : HexVal(s[i]) < 0
    THEN None
    ELSE Some([i \in 1..SigLen |-> 16 * HexVal(s[2 * i - 1]) + HexVal(s[2 * i])])

\* The body of a request carrying an interaction: its type as Discord numbers
\* it, its id, its token, the command's id and the shape of `resolved`.
KindCode(kind) ==
    CASE kind = "Ping" -> 1
      [] kind = "ApplicationCommand" -> 2
      [] kind = "MessageComponent" -> 3
      [] kind = "Other" -> 4

ResolvedCode(r) ==
    IF r = None THEN 0
    ELSE 1 + Len(Unwrap(r).messages) + 3 * Len(Unwrap(r).users)

Encode(i) ==
    <<KindCode(i.kind), i.id, IF i.token = "tokenA" THEN 65 ELSE 66,
      i.data.id, ResolvedCode(i.data.resolved)>>

\* The interaction each body encodes.
Decoded ==
    [b \in { Encode(i) : i \in Interactions } |->
        CHOOSE i \in Interactions : Encode(i) = b]

\* serde_json::from_slice::<Interaction>: Some(interaction), or None when the
\* body is not the encoding of one.
Deserialize(body) ==
    IF body \in DOMAIN Decoded THEN Some(Decoded[body]) ELSE None

\* An http::Request with the two headers process reads.
Request(method, timestamp, signature, body) ==
    [method |-> method, timestamp |-> timestamp, signature |-> signature, body |-> body]

NoRequest == Request("", None, None, <<>>)

METHOD_NOT_ALLOWED == 405
BAD_REQUEST == 400
UNAUTHORIZED == 401
OK == 200

Rejected(status, verified, parsed) ==
    [ok |-> FALSE, status |-> status, interaction |-> None,
     verified |-> verified, parsed |-> parsed]

\* The message, were the timestamp left out of it.
SignedBody(timestamp, body) == body

\* The message process verifies: the timestamp header's bytes, then the body.
SignedMessage(timestamp, body) == timestamp \o body

\* The key process verifies with: the caller's.
VerifyingKey(pub_key) == pub_key

\* The check, were its error dropped.
AnySignature(request, pub_key) == TRUE

\* The signature check of process.

SignatureVerifies(request, pub_key) ==
    Verify(VerifyingKey(pub_key),
           SignedMessage(Unwrap(request.timestamp), request.body),
           Unwrap(FromHex(Unwrap(request.signature))))

\* process from the decoding of the signature header on: the hex is decoded,
\* the signature verified, the body parsed.
Checked(request, pub_key) ==
    IF FromHex(Unwrap(request.signature)) = None THEN Rejected(BAD_REQUEST, <<>>, <<>>)
    ELSE LET call == [key |-> VerifyingKey(pub_key),
                      message |-> SignedMessage(Unwrap(request.timestamp), request.body),
                      signature |-> Unwrap(FromHex(Unwrap(request.signature)))]
         IN  IF ~SignatureVerifies(request, pub_key)
             THEN Rejected(UNAUTHORIZED, <<call>>, <<>>)
             ELSE IF Deserialize(request.body) = None
             THEN Rejected(BAD_REQUEST, <<call>>, <<request.body>>)
             ELSE [ok |-> TRUE, status |-> OK, interaction |-> Deserialize(request.body),
                   verified |-> <<call>>, parsed |-> <<request.body>>]

\* process, were the headers looked for before the method.
processHeadersFirst(request, pub_key) ==
    IF request.timestamp = None THEN Rejected(BAD_REQUEST, <<>>, <<>>)
    ELSE IF request.signature = None THEN Rejected(BAD_REQUEST, <<>>, <<>>)
    ELSE IF request.method # "POST" THEN Rejected(METHOD_NOT_ALLOWED, <<>>, <<>>)
    ELSE Checked(request, pub_key)

\* process: the interaction of a request or the status it is rejected with,
\* with the calls of verify it made (key, message, signature) and the bodies
\* it gave to serde_json.
process(request, pub_key) ==
    IF request.method # "POST" THEN Rejected(METHOD_NOT_ALLOWED, <<>>, <<>>)
    ELSE IF request.timestamp = None THEN Rejected(BAD_REQUEST, <<>>, <<>>)
    ELSE IF request.signature = None THEN Rejected(BAD_REQUEST, <<>>, <<>>)
    ELSE Checked(request, pub_key)

\* ------------------------------------------------------------------ state

VARIABLES
    builder,            \* the HandlerBuilder: global_commands, guild_commands, component_handler
    registrations,      \* the registration requests build() has issued, in order
    todo,               \* build(): the guilds its loop has still to register
    command_handlers,   \* Handler.command_handlers (build()'s local vector while it runs)
    component_handler,  \* Handler.component_handler is Some
    pc,                 \* where the program is
    entry,              \* the entry point of the call in progress
    interaction,        \* the Interaction given to Handler::handle, if any
    user,               \* what the user's closures return in this call
    request,            \* handle_request: the request
    pub_key,            \* handle_request: the public key
    processed,          \* handle_request: what process returned
    response,           \* what Handler::handle returned, if it returned
    calls,              \* the handlers Handler::handle called
    sent,               \* the HTTP requests this call has issued, in order
    resolved,           \* run_deferred: what the future resolved to, once it has
    returned,           \* handle_request: the pair it returned, if it returned
    item_enum,          \* derive(Choices): the enum it is given
    choices,            \* derive(Choices): the impl of Choices it generated, once it has
    option_ty,          \* SlashCommandOption: the type whose functions are called
    option_data,        \* from_option: its argument data
    option_resolved,    \* from_option: its argument resolved
    parsed,             \* from_option: what it returned, once it has
    described,          \* describe: what it returned, once it has
    item_fn,            \* slash_command: the function it is put on
    attr_args,          \* slash_command: the arguments of the attribute
    expanded,           \* slash_command: what it expanded to, once it has
    called,             \* the generated handler: what it was called with, once it was
    command_response,   \* the generated handler: what it returned, once it has
    awaited             \* what the future of the response resolved to, once it has

vars == <<builder, registrations, todo, command_handlers, component_handler, pc, entry,
          interaction, user, request, pub_key, processed, response, calls, sent, resolved,
          returned, item_enum, choices, option_ty, option_data, option_resolved, parsed,
          described, item_fn, attr_args, expanded, called, command_response, awaited>>

\* The state of the macros and of the option types.
optionVars == <<option_ty, option_data, option_resolved, parsed, described>>
macroVars == <<item_fn, attr_args, expanded, called, command_response, awaited>>
libVars == <<item_enum, choices, optionVars, macroVars>>
handlerVars == <<command_handlers, component_handler>>
buildVars == <<builder, registrations, todo>>
callVars == <<entry, interaction, user, request, pub_key, processed, response, calls,
              sent, resolved, returned>>

\* Handler::builder.
EmptyBuilder ==
    [global_commands |-> <<>>, guild_commands |-> [g \in GuildIds |-> <<>>],
     component_handler |-> FALSE]

NoUser == [slash |-> [ok |-> FALSE, val |-> <<Pong, None>>, err |-> ""],
           pair |-> <<Pong, None>>,
           component |-> [variant |-> "", data |-> None, future |-> None]]

NotProcessed == Rejected(0, <<>>, <<>>)

NoCall ==
    /\ entry' = ""
    /\ interaction' = None
    /\ user' = NoUser
    /\ request' = NoRequest
    /\ pub_key' = 0
    /\ processed' = NotProcessed
    /\ response' = None
    /\ calls' = <<>>
    /\ sent' = <<>>
    /\ resolved' = None
    /\ returned' = None

\* No macro has run and no option has been parsed.
\* No option has been parsed or described.
NoOption ==
    /\ option_ty = <<>>
    /\ option_data = None
    /\ option_resolved = None
    /\ parsed = None
    /\ described = None

\* slash_command has not run.
NoMacro ==
    /\ item_fn = None
    /\ attr_args = <<>>
    /\ expanded = None
    /\ called = None
    /\ command_response = None
    /\ awaited = None

LibInit ==
    /\ item_enum = None
    /\ choices = None
    /\ NoOption
    /\ NoMacro

\* A HandlerBuilder fresh from Handler::builder, and no call.
HandlerInit ==
    /\ builder = EmptyBuilder
    /\ registrations = <<>>
    /\ todo = {}
    /\ command_handlers = <<>>
    /\ component_handler = FALSE
    /\ pc = "builder"
    /\ entry = ""
    /\ interaction = None
    /\ user = NoUser
    /\ request = NoRequest
    /\ pub_key = 0
    /\ processed = NotProcessed
    /\ response = None
    /\ calls = <<>>
    /\ sent = <<>>
    /\ resolved = None
    /\ returned = None

Init == HandlerInit /\ LibInit

\* ---------------------------------------------------------- HandlerBuilder

RECURSIVE SumLen(_, _)
SumLen(f, S) ==
    IF S = {} THEN 0
    ELSE LET g == CHOOSE x \in S : TRUE IN Len(f[g]) + SumLen(f, S \ {g})

NumCommands(b) == Len(b.global_commands) + SumLen(b.guild_commands, GuildIds)

\* HandlerBuilder::global_command.
GlobalCommand(kind) ==
    /\ pc = "builder"
    /\ NumCommands(builder) < MaxCommands
    /\ builder' = [builder EXCEPT !.global_commands = Append(@, kind)]
    /\ UNCHANGED <<libVars, registrations, todo, handlerVars, pc, callVars>>

\* HandlerBuilder::guild_command.
GuildCommand(guild_id, kind) ==
    /\ pc = "builder"
    /\ NumCommands(builder) < MaxCommands
    /\ builder' = [builder EXCEPT !.guild_commands[guild_id] = Append(@, kind)]
    /\ UNCHANGED <<libVars, registrations, todo, handlerVars, pc, callVars>>

\* HandlerBuilder::component_handler.
ComponentHandler ==
    /\ pc = "builder"
    /\ builder' = [builder EXCEPT !.component_handler = TRUE]
    /\ UNCHANGED <<libVars, registrations, todo, handlerVars, pc, callVars>>

\* What a registration request can come to: its builder returns Err and no
\* request is issued; the request fails; the response does not decode; or it
\* succeeds.
Outcomes == {"invalid", "http", "decode", "ok"}

\* The handlers pushed for a list of commands and the ids of the response.
Zip(commands, ids) ==
    [i \in 1..Len(commands) |-> [id |-> ids[i], kind |-> commands[i]]]

\* A registration whose error is dropped instead of returned by `?`.
RegisterCarryOn(target, commands, o, ids, rest) ==
    /\ registrations' =
         IF o = "invalid" THEN registrations
         ELSE Append(registrations, [target |-> target, commands |-> commands, result |-> o])
    /\ command_handlers' = command_handlers \o Zip(commands, ids)
    /\ todo' = rest
    /\ pc' = "build"

\* One registration of build(): the request for `target` (0: the global
\* commands) with outcome o and, when it succeeds, the ids of the response
\* (0: a command without id, on which unwrap panics).
Register(target, commands, o, ids, rest) ==
    /\ registrations' =
         IF o = "invalid" THEN registrations
         ELSE Append(registrations, [target |-> target, commands |-> commands, result |-> o])
    /\ IF o # "ok"
       THEN /\ pc' = "build_err"
            /\ UNCHANGED <<command_handlers, todo>>
       ELSE IF \E i \in 1..Len(ids) : ids[i] = 0
       THEN /\ pc' = "build_panic"
            /\ UNCHANGED <<command_handlers, todo>>
       ELSE /\ command_handlers' = command_handlers \o Zip(commands, ids)
            /\ todo' = rest
            /\ pc' = "build"

\* build(): the registration of the global commands.
BuildGlobal(o, ids) ==
    /\ pc = "builder"
    /\ Register(0, builder.global_commands, o, ids,
                { g \in GuildIds : builder.guild_commands[g] # <<>> })
    /\ component_handler' = component_handler
    /\ UNCHANGED <<libVars, builder, callVars>>

\* build(): one turn of the loop over guild_commands, a HashMap, whose order
\* of iteration is any.
BuildGuild(guild_id, o, ids) ==
    /\ pc = "build"
    /\ guild_id \in todo
    /\ Register(guild_id, builder.guild_commands[guild_id], o, ids, todo \ {guild_id})
    /\ component_handler' = component_handler
    /\ UNCHANGED <<libVars, builder, callVars>>

\* build(): its loop over guild_commands has ended.
LoopDone == todo = {}

\* build(): Ok(Handler).
BuildFinish ==
    /\ pc = "build"
    /\ LoopDone
    /\ component_handler' = builder.component_handler
    /\ pc' = "built"
    /\ UNCHANGED <<libVars, builder, registrations, todo, command_handlers, callVars>>

\* The caller takes the Handler into use.
Serve ==
    /\ pc = "built"
    /\ pc' = "ready"
    /\ builder' = EmptyBuilder
    /\ registrations' = <<>>
    /\ UNCHANGED <<libVars, todo, handlerVars, callVars>>


\* ------------------------------------------------------------ handle_event

\* The user's closures returned u only if one of them was called.
UserOf(h, u) == IF h.calls = <<>> THEN NoUser ELSE u

\* The request, were it to carry a Pong in place of the response.
InteractionCallbackPong(r) ==
    [request |-> "interaction_callback", status |-> "pending", id |-> r.id,
     token |-> r.token, response |-> Pong]

\* The request of Client::interaction_callback as handle_event issues it.
InteractionCallback(r) ==
    [request |-> "interaction_callback", status |-> "pending", id |-> r.id,
     token |-> r.token, response |-> r.response]

\* handle_event up to its first await: Handler::handle, then the
\* interaction_callback request is issued.
HandleEvent(i, u) ==
    /\ pc = "ready"
    /\ \E h \in {handle(command_handlers, component_handler, i, u)} :
           /\ entry' = "handle_event"
           /\ interaction' = Some(i)
           /\ user' = UserOf(h, u)
           /\ calls' = h.calls
           /\ IF h.panic
              THEN /\ pc' = "panic"
                   /\ response' = None
                   /\ sent' = <<>>
              ELSE /\ pc' = "callback"
                   /\ response' = Some(h.result)
                   /\ sent' = <<InteractionCallback(h.result)>>
    /\ UNCHANGED <<libVars, buildVars, handlerVars, request, pub_key, processed, resolved, returned>>

\* Where handle_event would go, did it not look at how the request ended.
AfterCallbackAnyway(ok) ==
    IF IsSome(Unwrap(response).future) THEN "await" ELSE "ok"

\* Where handle_event goes once the interaction_callback request has ended:
\* `?` returns its error, a Response without future ends the call, and one
\* with a future goes on to run_deferred.
AfterCallback(ok) ==
    IF ~ok THEN "err"
    ELSE IF IsSome(Unwrap(response).future) THEN "await"
    ELSE "ok"

\* The last request issued ends with this status.
Ended(status) == [sent EXCEPT ![Len(sent)].status = status]

\* handle_event: the interaction_callback request ends, well or not.
CallbackDone(ok) ==
    /\ pc = "callback"
    /\ pc' = AfterCallback(ok)
    /\ sent' = Ended(IF ok THEN "ok" ELSE "failed")
    /\ UNCHANGED <<libVars, buildVars, handlerVars, entry, interaction, user, request, pub_key,
                   processed, response, calls, resolved, returned>>

\* ------------------------------------------------------------ run_deferred

\* The token, were it a fixed one instead of the Response's.
TokenOfFirst(r) == "tokenA"

\* The token run_deferred is given: that of the Response.
TokenOf(r) == r.token

\* The request of Client::update_interaction_original as run_deferred builds
\* it from the CallbackData the future resolved to.
UpdateInteractionOriginal(token, callback) ==
    [request |-> "update_interaction_original", status |-> "pending", token |-> token,
     content |-> callback.content, embeds |-> Some(callback.embeds),
     allowed_mentions |-> callback.allowed_mentions]

\* The future run_deferred awaits: that of the Response.
Deferred == Unwrap(response).future

\* The caller of handle_request polls the future it was given (the webhook
\* example spawns it); run_deferred starts.
Spawn ==
    /\ pc = "returned"
    /\ IsSome(Unwrap(returned).future)
    /\ pc' = "await"
    /\ UNCHANGED <<libVars, buildVars, handlerVars, callVars>>

\* run_deferred's first await: the future resolves.
Resolve ==
    /\ pc = "await"
    /\ resolved = None
    /\ resolved' = Some(Unwrap(Deferred).output)
    /\ UNCHANGED <<libVars, buildVars, handlerVars, pc, entry, interaction, user, request, pub_key,
                   processed, response, calls, sent, returned>>

\* run_deferred from there to its second await: the request is built (built:
\* none of its builders returned Err) and issued.
RunDeferred(built) ==
    /\ pc = "await"
    /\ IsSome(resolved)
    /\ IF built
       THEN /\ sent' = Append(sent, UpdateInteractionOriginal(TokenOf(Unwrap(response)),
                                                              Unwrap(resolved)))
            /\ pc' = "update"
       ELSE /\ sent' = sent
            /\ pc' = "err"
    /\ UNCHANGED <<libVars, buildVars, handlerVars, entry, interaction, user, request, pub_key,
                   processed, response, calls, resolved, returned>>

\* run_deferred: the update_interaction_original request ends, well or not.
UpdateDone(ok) ==
    /\ pc = "update"
    /\ pc' = IF ok THEN "ok" ELSE "err"
    /\ sent' = Ended(IF ok THEN "ok" ELSE "failed")
    /\ UNCHANGED <<libVars, buildVars, handlerVars, entry, interaction, user, request, pub_key,
                   processed, response, calls, resolved, returned>>

\* ---------------------------------------------------------- handle_request

\* serde_json::to_vec of an InteractionResponse: its type as Discord numbers
\* it, and its data.
TypeCode(type) ==
    CASE type = "Pong" -> 1
      [] type = "ChannelMessageWithSource" -> 4
      [] type = "DeferredChannelMessageWithSource" -> 5
      [] type = "DeferredUpdateMessage" -> 6
      [] type = "UpdateMessage" -> 7

ToJson(r) == <<TypeCode(r.type), r.data>>

\* The http::Response handle_request builds.
HttpResponse(status, content_type, body) ==
    [status |-> status, content_type |-> content_type, body |-> body]

\* The rejection, were its status left at the builder's default.
RejectionWithOk(p) ==
    [ok |-> TRUE, response |-> HttpResponse(OK, None, <<>>), future |-> None]

\* What handle_request returns for a request process rejected.
Rejection(p) ==
    [ok |-> TRUE, response |-> HttpResponse(p.status, None, <<>>), future |-> None]

\* handle_request: process, then Handler::handle, then the response.
\* serde_json::to_vec of an InteractionResponse is taken to succeed.
HandleRequest(r, k, u) ==
    /\ pc = "ready"
    /\ entry' = "handle_request"
    /\ request' = r
    /\ pub_key' = k
    /\ sent' = <<>>
    /\ resolved' = None
    /\ \E p \in {process(r, k)} :
           /\ processed' = p
           /\ IF ~p.ok
              THEN /\ returned' = Some(Rejection(p))
                   /\ pc' = "returned"
                   /\ interaction' = None
                   /\ user' = NoUser
                   /\ response' = None
                   /\ calls' = <<>>
              ELSE \E h \in {handle(command_handlers, component_handler,
                                      Unwrap(p.interaction), u)} :
                       /\ interaction' = p.interaction
                       /\ user' = UserOf(h, u)
                       /\ calls' = h.calls
                       /\ IF h.panic
                          THEN /\ pc' = "panic"
                               /\ response' = None
                               /\ returned' = None
                          ELSE /\ pc' = "returned"
                               /\ response' = Some(h.result)
                               /\ returned' =
                                    Some([ok |-> TRUE,
                                          response |-> HttpResponse(
                                              OK, Some("application/json"),
                                              ToJson(h.result.response)),
                                          future |-> h.result.future])
    /\ UNCHANGED <<libVars, buildVars, handlerVars>>

\* The call is over (a future handle_request returned may be dropped unpolled):
\* the Handler takes the next one.
Finish ==
    /\ pc \in {"ok", "err", "panic", "returned"}
    /\ pc' = "ready"
    /\ NoCall
    /\ UNCHANGED <<libVars, buildVars, handlerVars>>

\* ------------------------------------------------------------------ inputs

\* The ids of a response to a registration of n commands: Discord answers
\* with the commands it was given (0: a command without id).
ResponseIds(n) == [1..n -> CommandIds \cup {0}]

Timestamp == <<49, 54>>
Junk == <<123, 125>>
\* The bodies posted: the interactions of one origin, and two that are none.
AllBodies == { Encode(i) : i \in { j \in Interactions : j.id = 1 } }
             \cup {Junk, <<9, 1, 65, 0, 0>>}
FewBodies == { Junk, Encode(CHOOSE i \in Interactions : i.kind = "Ping" /\ i.id = 1) }

\* The signature headers tried on a request with this timestamp and body:
\* none, the signature of key 1, that signature in upper case, the signature
\* of the body alone, a string of odd length, one with a character that is no
\* hex digit, and one a byte too long.
Upper(s) == [i \in 1..Len(s) |-> IF s[i] >= 97 THEN s[i] - 32 ELSE s[i]]

Signatures(timestamp, body) ==
    LET ts == IF timestamp = None THEN <<>> ELSE Unwrap(timestamp)
        good == ToHex(Sign(1, ts \o body))
    IN  { None, Some(good), Some(Upper(good)), Some(ToHex(Sign(1, body))),
          Some(SubSeq(good, 1, Len(good) - 1)),
          Some(<<103>> \o Tail(good)),
          Some(good \o <<48, 48>>) }

Methods == {"POST", "GET"}
Timestamps == {None, Some(Timestamp)}

\* Every method, timestamp and signature header, on two bodies; and every
\* body, posted with a timestamp and signed by key 1 with or without it.
Requests ==
    UNION { { Request(m, mtb[1], s, mtb[2]) : s \in Signatures(mtb[1], mtb[2]), m \in Methods } :
            mtb \in Timestamps \X FewBodies }
    \cup
    UNION { { Request("POST", Some(Timestamp), s, b) :
                s \in { Some(ToHex(Sign(1, Timestamp \o b))), Some(ToHex(Sign(1, b))) } } :
            b \in AllBodies }

\* -------------------------------------------------------------------- spec

Next ==
    \/ \E kind \in CommandKinds : GlobalCommand(kind)
    \/ \E g \in GuildIds, kind \in CommandKinds : GuildCommand(g, kind)
    \/ ComponentHandler
    \/ \E o \in Outcomes, ids \in ResponseIds(Len(builder.global_commands)) :
         BuildGlobal(o, ids)
    \/ \E g \in GuildIds, o \in Outcomes :
         \E ids \in ResponseIds(Len(builder.guild_commands[g])) : BuildGuild(g, o, ids)
    \/ BuildFinish
    \/ Serve
    \/ \E i \in Interactions, u \in UserResults : HandleEvent(i, u)
    \/ \E ok \in BOOLEAN : CallbackDone(ok)
    \/ Spawn
    \/ Resolve
    \/ \E built \in BOOLEAN : RunDeferred(built)
    \/ \E ok \in BOOLEAN : UpdateDone(ok)
    \/ \E r \in Requests, k \in Keys, u \in UserResults : HandleRequest(r, k, u)
    \/ Finish

Spec == Init /\ [][Next]_vars


\* ==================================================================== i64

\* An i64 is kept as its four limbs of 16 bits, the lowest first, in two's
\* complement.
Limb == 65536
Limbs == 4

\* The i64 of a small integer.
I64(n) ==
    IF n >= 0 THEN <<n, 0, 0, 0>>
    ELSE <<Limb + n, Limb - 1, Limb - 1, Limb - 1>>

I64_MAX == <<Limb - 1, Limb - 1, Limb - 1, (Limb \div 2) - 1>>
I64_MIN == <<0, 0, 0, Limb \div 2>>

RECURSIVE AddFrom(_, _, _, _)
AddFrom(a, b, i, carry) ==
    IF i > Limbs THEN <<>>
    ELSE LET sum == a[i] + b[i] + carry
         IN <<sum % Limb>> \o AddFrom(a, b, i + 1, sum \div Limb)

\* i64::wrapping_add, were it to stop at i64::MAX.
saturating_add(a, b) == IF a = I64_MAX THEN a ELSE AddFrom(a, b, 1, 0)

\* i64::wrapping_add: the carry out of the highest limb is dropped.
wrapping_add(a, b) == AddFrom(a, b, 1, 0)

\* ======================================================== derive(Choices)

\* The variants an enum may have.
MaxVariants == 2

\* The attributes of a variant: a doc comment, a well-formed #[name = "..."]
\* and one that EqStr does not parse, as in #[name("...")].
DocAttr == [path |-> "doc", eq_str |-> TRUE, str |-> "A variant."]
NameAttr(str) == [path |-> "name", eq_str |-> TRUE, str |-> str]
BadNameAttr == [path |-> "name", eq_str |-> FALSE, str |-> ""]
AttrLists ==
    { <<>>, <<DocAttr>>, <<DocAttr, NameAttr("not an ident!")>>,
      <<NameAttr("first"), NameAttr("second")>>, <<BadNameAttr>> }

\* The expression of an explicit discriminant.
Lit(n) == [kind |-> "literal", n |-> n]
MaxPath == [kind |-> "i64::MAX", n |-> 0]
Discriminants == { None, Some(Lit(5)), Some(Lit(-1)), Some(MaxPath) }

\* `#value as i64`.
AsI64(expr) == IF expr.kind = "i64::MAX" THEN I64_MAX ELSE I64(expr.n)

\* The identifiers of the variants, by their place in the enum.
Idents == <<"Bar", "Baz", "Qux", "Quux">>
\* Ident::to_string.
to_string(ident) == ident

Variants(n) ==
    { [ident |-> Idents[n], attrs |-> a, discriminant |-> d] :
        a \in AttrLists, d \in Discriminants }

\* ItemEnum.variants: the enums of up to MaxVariants variants.
Enums ==
    UNION { { v \in [1..n -> UNION { Variants(i) : i \in 1..n }] :
                \A i \in 1..n : v[i].ident = Idents[i] } : n \in 0..MaxVariants }

\* variant.attrs.into_iter().find(|attr| attr.path.is_ident("name"))
RECURSIVE FindName(_, _)
FindName(attrs, i) ==
    IF i > Len(attrs) THEN None
    ELSE IF attrs[i].path = "name" THEN Some(attrs[i])
    ELSE FindName(attrs, i + 1)

name_attr(variant) == FindName(variant.attrs, 1)

\* next_discriminant after a variant whose value is value.
next_discriminant(value) == wrapping_add(value, I64(1))

\* What derive_choices expands to when parse_macro_input! fails.
CompileError(message) ==
    [error |-> Some(message), names |-> <<>>, values |-> <<>>, display_names |-> <<>>]

\* The loop of derive_choices from the i-th variant on.
RECURSIVE ForVariants(_, _, _, _)
ForVariants(variants, i, next, acc) ==
    IF i > Len(variants) THEN acc
    ELSE LET variant == variants[i]
             attr == name_attr(variant)
         IN  IF IsSome(attr) /\ ~Unwrap(attr).eq_str
             THEN CompileError("expected =")
             ELSE LET name == IF IsSome(attr) THEN Unwrap(attr).str
                              ELSE to_string(variant.ident)
                      value == IF IsSome(variant.discriminant)
                               THEN AsI64(Unwrap(variant.discriminant))
                               ELSE next
                  IN  ForVariants(variants, i + 1, next_discriminant(value),
                                  [error |-> None,
                                   names |-> Append(acc.names, variant.ident),
                                   values |-> Append(acc.values, value),
                                   display_names |-> Append(acc.display_names, name)])

\* derive_choices: the vectors its loop fills.
derive_choices(item) ==
    ForVariants(item, 1, I64(0),
                [error |-> None, names |-> <<>>, values |-> <<>>, display_names |-> <<>>])

\* The CHOICES of the impl generated.
CHOICES(impl) == [i \in 1..Len(impl.values) |-> <<impl.display_names[i], impl.values[i]>>]

\* The from_discriminant of the impl generated: the first arm that matches.
RECURSIVE MatchFrom(_, _, _)
MatchFrom(impl, discriminant, i) ==
    IF i > Len(impl.names) THEN None
    ELSE IF impl.values[i] = discriminant THEN Some(impl.names[i])
    ELSE MatchFrom(impl, discriminant, i + 1)

from_discriminant(impl, discriminant) == MatchFrom(impl, discriminant, 1)

\* The enum is given to derive(Choices).
ChoicesInit ==
    /\ HandlerInit
    /\ item_enum \in { Some(e) : e \in Enums }
    /\ choices = None
    /\ NoOption
    /\ NoMacro

\* derive_choices expands.
DeriveChoices ==
    /\ IsSome(item_enum)
    /\ choices = None
    /\ choices' = Some(derive_choices(Unwrap(item_enum)))
    /\ UNCHANGED <<buildVars, handlerVars, pc, callVars, item_enum, optionVars, macroVars>>

ChoicesNext == DeriveChoices

ChoicesSpec == ChoicesInit /\ [][ChoicesNext]_vars

\* ============================================================ option types

\* How deep a type given to from_option and describe is wrapped in Option.
MaxNesting == 1

\* Characters are their code points; a String is the sequence of them.
Plus == 43
Zero == 48
Nine == 57

\* The string of these decimal digits.
Digits(ds) == [i \in 1..Len(ds) |-> Zero + ds[i]]

\* A u64 is kept, like an i64, as its four limbs of 16 bits.
U64(n) == <<n, 0, 0, 0>>

\* a * 10 + carry from the i-th limb on; the last element is what does not
\* fit in 64 bits.
RECURSIVE MulFrom(_, _, _)
MulFrom(a, i, carry) ==
    IF i > Limbs THEN <<carry>>
    ELSE LET t == a[i] * 10 + carry
         IN <<t % Limb>> \o MulFrom(a, i + 1, t \div Limb)

\* checked_mul(10) and checked_add(digit): None on overflow.
CheckedMulAdd(a, digit) ==
    LET r == MulFrom(a, 1, digit)
    IN IF r[Limbs + 1] > 0 THEN None ELSE Some(SubSeq(r, 1, Limbs))

\* The digits of from_str_radix from the i-th on.
RECURSIVE Accumulate(_, _, _)
Accumulate(digits, i, acc) ==
    IF i > Len(digits) THEN Some(acc)
    ELSE IF digits[i] < Zero \/ digits[i] > Nine THEN None
    ELSE LET next == CheckedMulAdd(acc, digits[i] - Zero)
         IN IF next = None THEN None ELSE Accumulate(digits, i + 1, Unwrap(next))

\* value.parse::<u64>().ok(): an optional `+`, then one decimal digit or more
\* whose number fits in 64 bits.
ParseU64(value) ==
    IF value = <<>> THEN None
    ELSE LET digits == IF value[1] = Plus THEN Tail(value) ELSE value
         IN IF digits = <<>> THEN None ELSE Accumulate(digits, 1, U64(0))

\* The values of the string options received.
StringValues ==
    { Digits(<<7>>), Digits(<<8>>), Digits(<<9>>), Digits(<<0, 0, 7>>),
      <<Plus>> \o Digits(<<8>>), <<Plus>>, <<45>> \o Digits(<<7>>),
      <<120>> \o Digits(<<7>>), <<>>,
      Digits(<<1, 8, 4, 4, 6, 7, 4, 4, 0, 7, 3, 7, 0, 9, 5, 5, 1, 6, 1, 5>>),
      Digits(<<1, 8, 4, 4, 6, 7, 4, 4, 0, 7, 3, 7, 0, 9, 5, 5, 1, 6, 1, 6>>) }

\* CommandDataOption, and the Option of it from_option is given.
StringOption(value) == [kind |-> "String", value |-> value]
IntegerOption(value) == [kind |-> "Integer", value |-> value]
BooleanOption(value) == [kind |-> "Boolean", value |-> value]
SubCommandOption == [kind |-> "SubCommand", value |-> <<>>]
Datas ==
    {None} \cup { Some(StringOption(v)) : v \in StringValues }
           \cup { Some(IntegerOption(I64(n))) : n \in {0, 2, 7} }
           \cup { Some(BooleanOption(TRUE)), Some(SubCommandOption) }

\* An entry of a resolved list: a User, an InteractionChannel or a Role.
Entry(id, name) == [id |-> U64(id), name |-> name]

\* CommandInteractionDataResolved, and the Option of it from_option is given.
OptionResolveds ==
    { None,
      Some([users |-> <<>>, channels |-> <<>>, roles |-> <<>>]),
      Some([users |-> <<Entry(7, "alice"), Entry(8, "bob"), Entry(7, "carol")>>,
            channels |-> <<Entry(8, "general")>>,
            roles |-> <<Entry(7, "admin")>>]),
      Some([users |-> <<Entry(9, "dave")>>,
            channels |-> <<Entry(9, "random"), Entry(7, "dev")>>,
            roles |-> <<Entry(8, "mod"), Entry(7, "admin")>>]) }

\* The enum of the documentation of Choices, and its derived impl.
Foo ==
    << [ident |-> "Bar", attrs |-> <<>>, discriminant |-> None],
       [ident |-> "Baz", attrs |-> <<>>, discriminant |-> None],
       [ident |-> "Qux", attrs |-> <<NameAttr("not an ident!")>>, discriminant |-> None] >>
FooChoices == derive_choices(Foo)

\* The types that implement SlashCommandOption: the plain ones, and those
\* wrapped in Option (a type is the sequence of its wrappers and itself).
PlainTypes ==
    {"String", "i64", "bool", "User", "InteractionChannel", "Role", "Mentionable", "Foo"}
RECURSIVE Wrapped(_)
Wrapped(n) ==
    IF n = 0 THEN { <<t>> : t \in PlainTypes }
    ELSE { <<"Option">> \o t : t \in Wrapped(n - 1) }
OptionTypes == UNION { Wrapped(n) : n \in 0..MaxNesting }

\* iter().find(|entry| entry.id == id).cloned()
RECURSIVE Find(_, _, _)
Find(list, id, i) ==
    IF i > Len(list) THEN None
    ELSE IF list[i].id = id THEN Some(list[i])
    ELSE Find(list, id, i + 1)

\* The list searched, were it the users for every type.
UsersList(T, r) == r.users

\* The list of resolved that from_option of User, InteractionChannel and Role
\* searches.
ResolvedList(T, r) ==
    CASE T = "User" -> r.users
      [] T = "InteractionChannel" -> r.channels
      [] T = "Role" -> r.roles

\* from_option of User, InteractionChannel and Role.
FromResolved(T, data, res) ==
    IF data # None /\ Unwrap(data).kind = "String"
    THEN LET id == ParseU64(Unwrap(data).value)
         IN  IF id = None THEN None
             ELSE IF res = None THEN None
             ELSE Find(ResolvedList(T, Unwrap(res)), Unwrap(id), 1)
    ELSE None

\* from_option of Mentionable: a user of that id, otherwise a role.
FromMentionable(data, res) ==
    IF data # None /\ Unwrap(data).kind = "String"
    THEN LET id == ParseU64(Unwrap(data).value)
         IN  IF id = None THEN None
             ELSE IF res = None THEN None
             ELSE LET a_user == Find(Unwrap(res).users, Unwrap(id), 1)
                      a_role == Find(Unwrap(res).roles, Unwrap(id), 1)
                  IN  IF a_user # None
                      THEN Some([variant |-> "User", val |-> Unwrap(a_user)])
                      ELSE IF a_role # None
                      THEN Some([variant |-> "Role", val |-> Unwrap(a_role)])
                      ELSE None
    ELSE None

\* from_option of String, i64 and bool: the value of an option of their kind.
FromValue(kind, data) ==
    IF data # None /\ Unwrap(data).kind = kind THEN Some(Unwrap(data).value) ELSE None

\* from_option of a type that implements Choices.
FromChoices(impl, data) ==
    IF data # None /\ Unwrap(data).kind = "Integer"
    THEN from_discriminant(impl, Unwrap(data).value)
    ELSE None

\* SlashCommandOption::from_option of the type T.
RECURSIVE from_option(_, _, _)
from_option(T, data, res) ==
    CASE T[1] = "Option" ->
           IF data = None THEN Some(None)
           ELSE LET inner == from_option(Tail(T), data, res)
                IN IF inner = None THEN None ELSE Some(Some(Unwrap(inner)))
      [] T[1] = "String" -> FromValue("String", data)
      [] T[1] = "i64" -> FromValue("Integer", data)
      [] T[1] = "bool" -> FromValue("Boolean", data)
      [] T[1] \in {"User", "InteractionChannel", "Role"} -> FromResolved(T[1], data, res)
      [] T[1] = "Mentionable" -> FromMentionable(data, res)
      [] T[1] = "Foo" -> FromChoices(FooChoices, data)

\* The variant of CommandOption a plain type describes itself as.
OptionKind(T) ==
    CASE T = "String" -> "String"
      [] T = "i64" -> "Integer"
      [] T = "bool" -> "Boolean"
      [] T = "User" -> "User"
      [] T = "InteractionChannel" -> "Channel"
      [] T = "Role" -> "Role"
      [] T = "Mentionable" -> "Mentionable"
      [] T = "Foo" -> "Integer"

\* Self::CHOICES.iter().map(..).collect()
IntChoices(impl) ==
    [i \in 1..Len(CHOICES(impl)) |->
        [name |-> CHOICES(impl)[i][1], value |-> CHOICES(impl)[i][2]]]

\* The required of Option<T>::describe, were it left as T's.
RequiredKept(option) == option

\* Option<T>::describe: the required of T's description is set to false.
NotRequired(option) == [option EXCEPT !.required = FALSE]

\* SlashCommandOption::describe of the type T.
RECURSIVE describe(_, _, _)
describe(T, name, description) ==
    IF T[1] = "Option" THEN NotRequired(describe(Tail(T), name, description))
    ELSE [kind |-> OptionKind(T[1]), name |-> name, description |-> description,
          required |-> TRUE,
          choices |-> IF T[1] = "Foo" THEN IntChoices(FooChoices) ELSE <<>>]

\* The names and descriptions describe is given.
OptionNames == {"target", "reason"}
Descriptions == {"Whom to greet"}

\* A type and the arguments of its from_option.
OptionInit ==
    /\ HandlerInit
    /\ item_enum = None
    /\ choices = None
    /\ option_ty \in OptionTypes
    /\ option_data \in Datas
    /\ option_resolved \in OptionResolveds
    /\ parsed = None
    /\ described = None
    /\ NoMacro

\* T::from_option(data, resolved) returns.
FromOption ==
    /\ option_ty # <<>>
    /\ parsed = None
    /\ parsed' = Some(from_option(option_ty, option_data, option_resolved))
    /\ UNCHANGED <<buildVars, handlerVars, pc, callVars, item_enum, choices, option_ty,
                   option_data, option_resolved, described, macroVars>>

\* T::describe(name, description) returns.
Describe(name, description) ==
    /\ option_ty # <<>>
    /\ described = None
    /\ described' = Some(describe(option_ty, name, description))
    /\ UNCHANGED <<buildVars, handlerVars, pc, callVars, item_enum, choices, option_ty,
                   option_data, option_resolved, parsed, macroVars>>

OptionNext ==
    \/ FromOption
    \/ \E name \in OptionNames, description \in Descriptions : Describe(name, description)

OptionSpec == OptionInit /\ [][OptionNext]_vars

\* ============================================================ slash_command

\* The parameters a function given to slash_command may have.
MaxParams == 2

\* The characters the macro tells apart.
Dash == 45
Underscore == 95
LowerA == 97
LowerZ == 122

\* The identifiers of parameters: ab, a_b, aB and a1.
ParamIdents == { <<97, 98>>, <<97, 95, 98>>, <<97, 66>>, <<97, 49>> }
\* An identifier that names no parameter: zz.
Stranger == <<122, 122>>
\* The type of the parameter of a name: ab is an Option<String>, the others
\* are Strings.
TypeOf(ident) == IF ident = <<97, 98>> THEN <<"Option", "String">> ELSE <<"String">>

\* FnArg: a typed argument whose pattern is an identifier, one whose pattern
\* is another pattern, and a receiver.
Typed(ident) == [arg |-> "Typed", pat |-> "Ident", ident |-> ident, ty |-> TypeOf(ident)]
TypedPattern == [arg |-> "Typed", pat |-> "Tuple", ident |-> <<>>, ty |-> <<"String">>]
Receiver == [arg |-> "Receiver", pat |-> "", ident |-> <<>>, ty |-> <<>>]

\* item.sig.inputs: up to MaxParams parameters of different names, or one
\* that slash_command does not support.
Inputs ==
    UNION { { s \in [1..n -> { Typed(i) : i \in ParamIdents }] :
                \A j, k \in 1..n : j # k => s[j] # s[k] } : n \in 0..MaxParams }
    \cup { <<Receiver>>, <<TypedPattern>> }

\* ItemFn: the function slash_command is put on (its name is greet_user).
ItemFn(asyncness, inputs, output) ==
    [asyncness |-> asyncness, ident |-> <<103, 95, 117>>, inputs |-> inputs,
     output |-> output]
Outputs == {"Default", "String", "CallbackData"}
Items == { ItemFn(a, i, o) : a \in BOOLEAN, i \in Inputs, o \in Outputs }

\* NestedMeta: the arguments of the attribute.
Path(ident) == [meta |-> "Path", ident |-> ident, nested |-> <<>>]
List(ident, nested) == [meta |-> "List", ident |-> ident, nested |-> nested]
LitArg == [meta |-> "Lit", ident |-> "", nested |-> <<>>]
\* What a list nests: a literal, and ident = literal.
StrLit(str) == [meta |-> "Lit", lit |-> "Str", str |-> str, ident |-> <<>>]
IntLit == [meta |-> "Lit", lit |-> "Int", str |-> <<>>, ident |-> <<>>]
NameValue(ident, lit, str) == [meta |-> "NameValue", lit |-> lit, str |-> str, ident |-> ident]

\* The strings given in rename(...): x-y, X, the empty string, a_, `, { and za.
RenameStrings ==
    { <<120, 45, 121>>, <<88>>, <<>>, <<97, 95>>, <<96>>, <<123>>, <<122, 97>> }

\* description("Hi", p = "It", ...) for these parameters.
DescriptionOf(inputs) ==
    List("description",
         <<StrLit(<<72, 105>>)>> \o
         [i \in 1..Len(inputs) |-> NameValue(inputs[i].ident, "Str", <<73, 116>>)])

\* The description(...) lists tried for a function: the full one, one without
\* the description of the command, one without that of the last parameter,
\* and one with a literal that is no string.
DescriptionLists(inputs) ==
    { <<DescriptionOf(inputs)>>,
      <<List("description", Tail(DescriptionOf(inputs).nested))>>,
      <<List("description", SubSeq(DescriptionOf(inputs).nested, 1, Len(inputs)))>>,
      <<List("description", <<IntLit>>)>> }

\* The rename(...) lists tried for a function: none, its first parameter
\* renamed, renamed twice, and a rename of what is no parameter.
RenameLists(inputs) ==
    {<<>>, <<List("rename", <<NameValue(Stranger, "Str", <<88>>)>>)>>}
    \cup (IF inputs = <<>> THEN {}
          ELSE { <<List("rename", <<NameValue(inputs[1].ident, "Str", s)>>)>> :
                   s \in RenameStrings }
               \cup { <<List("rename", <<NameValue(inputs[1].ident, "Str", <<88>>),
                                         NameValue(inputs[1].ident, "Str", <<122, 97>>)>>)>>,
                      <<List("rename", <<NameValue(inputs[1].ident, "Int", <<>>)>>)>> })

\* AttributeArgs: the arguments tried for a function.
AttributeArgs(inputs) ==
    { d \o r \o f : d \in DescriptionLists(inputs), r \in RenameLists(inputs),
                    f \in {<<>>, <<Path("defer")>>} }
    \cup { <<Path("defer"), DescriptionOf(inputs)>>,
           <<Path("ephemeral"), Path("defer")>>, <<LitArg>> }

\* A HashMap, as the set of its pairs of key and value.
Insert(map, key, value) == { p \in map : p[1] # key } \cup {<<key, value>>}
Get(map, key) ==
    IF \E p \in map : p[1] = key THEN Some((CHOOSE p \in map : p[1] = key)[2]) ELSE None
Remove(map, key) == { p \in map : p[1] # key }

\* syn::Error::new_spanned(..).into_compile_error(): what the macro expands
\* to when it rejects its input.
Error(message) == [error |-> Some(message)]
IsError(r) == r.error # None

\* The items of description(...) from the j-th on.
RECURSIVE ForDescription(_, _, _)
ForDescription(nested, j, st) ==
    IF j > Len(nested) THEN st
    ELSE IF nested[j].lit # "Str" THEN Error("Description must be a string literal")
    ELSE IF nested[j].meta = "Lit"
    THEN ForDescription(nested, j + 1, [st EXCEPT !.description = Some(nested[j].str)])
    ELSE ForDescription(nested, j + 1,
             [st EXCEPT !.opt_descriptions = Insert(@, nested[j].ident, nested[j].str)])

\* The items of rename(...) from the j-th on.
RECURSIVE ForRename(_, _, _)
ForRename(nested, j, st) ==
    IF j > Len(nested) THEN st
    ELSE IF nested[j].meta # "NameValue"
    THEN Error("Options to rename must be of the form ident = name")
    ELSE IF nested[j].lit # "Str" THEN Error("The new name must be a string literal")
    ELSE ForRename(nested, j + 1,
             [st EXCEPT !.renames = Insert(@, nested[j].ident, nested[j].str)])

\* Whether `defer` is let through, were it let through for every function.
DeferAlways(item) == TRUE

\* Whether `defer` is let through: for async functions only.
DeferAllowed(item) == item.asyncness

\* The arguments of the attribute from the i-th on.
RECURSIVE ForArgs(_, _, _, _)
ForArgs(args, i, item, st) ==
    IF i > Len(args) THEN st
    ELSE IF args[i].meta = "Path"
    THEN IF args[i].ident = "defer"
         THEN IF ~DeferAllowed(item)
              THEN Error("Synchronous slash commands cannot be deferred")
              ELSE ForArgs(args, i + 1, item, [st EXCEPT !.defer = TRUE])
         ELSE Error("Unexpected argument")
    ELSE IF args[i].meta = "List" /\ args[i].ident \in {"description", "rename"}
    THEN LET r == IF args[i].ident = "description"
                  THEN ForDescription(args[i].nested, 1, st)
                  ELSE ForRename(args[i].nested, 1, st)
         IN IF IsError(r) THEN r ELSE ForArgs(args, i + 1, item, r)
    ELSE Error("Unexpected argument")

\* str::replace of one character by another.
replace(s, from, to) == [i \in 1..Len(s) |-> IF s[i] = from THEN to ELSE s[i]]

\* The characters let through, were every character let through.
AnyChar(char) == TRUE

\* The characters of an argument name: 'a'..='z' | '-'.
IsKebab(char) == (LowerA <= char /\ char <= LowerZ) \/ char = Dash

\* The parameters of the function from the k-th on.
RECURSIVE ForInputs(_, _, _)
ForInputs(inputs, k, st) ==
    IF k > Len(inputs) THEN st
    ELSE IF inputs[k].arg = "Receiver"
    THEN Error("Slash commands cannot have receiver arguments (self)")
    ELSE IF inputs[k].pat # "Ident" THEN Error("Only plain idents are supported.")
    ELSE IF Get(st.opt_descriptions, inputs[k].ident) = None
    THEN Error("Missing description for the argument")
    ELSE LET ident == inputs[k].ident
             renamed == Get(st.renames, ident)
             name == IF IsSome(renamed) THEN Unwrap(renamed)
                     ELSE replace(ident, Underscore, Dash)
         IN  IF \E c \in 1..Len(name) : ~IsKebab(name[c])
             THEN Error("Argument names must be kebab-case")
             ELSE ForInputs(inputs, k + 1,
                      [st EXCEPT
                         !.opt_type = Append(@, inputs[k].ty),
                         !.opt_description =
                             Append(@, Unwrap(Get(st.opt_descriptions, ident))),
                         !.opt_descriptions = Remove(@, ident),
                         !.renames = Remove(@, ident),
                         !.opt_name = Append(@, name),
                         !.opt_ident = Append(@, Append(ident, Underscore))])

\* slash_command: what it has gathered before it looks at its arguments.
NothingGathered ==
    [error |-> None, defer |-> FALSE, description |-> None, opt_descriptions |-> {},
     renames |-> {}, opt_type |-> <<>>, opt_name |-> <<>>, opt_description |-> <<>>,
     opt_ident |-> <<>>]

\* slash_command: the error it expands to, or what the code it generates is
\* made of.
slash_command(args, item) ==
    LET st == ForArgs(args, 1, item, NothingGathered)
    IN  IF IsError(st) THEN st
        ELSE LET gathered == ForInputs(item.inputs, 1, st)
             IN  IF IsError(gathered) THEN gathered
                 ELSE IF gathered.description = None THEN Error("Missing description")
                 ELSE IF item.output = "Default"
                 THEN Error("Slash commands cannot return nothing.")
                 ELSE [error |-> None,
                       asyncness |-> item.asyncness,
                       defer |-> gathered.defer,
                       name |-> replace(item.ident, Underscore, Dash),
                       description |-> Unwrap(gathered.description),
                       output |-> item.output,
                       opt_type |-> gathered.opt_type,
                       opt_name |-> gathered.opt_name,
                       opt_description |-> gathered.opt_description,
                       opt_ident |-> gathered.opt_ident]

\* InteractionResult::into_callback_data of a value of the function's return
\* type: a CallbackData is itself, a String is the content of an otherwise
\* empty one.
into_callback_data(output, res) ==
    IF output = "String" THEN [EMPTY_CALLBACK EXCEPT !.content = Some(res)] ELSE res

\* The values a function of this return type returns, or resolves to.
Returns(output) == IF output = "String" THEN {"Hello!"} ELSE {Rich, Plain}

\* The response, were it Sync for every function.
convert_sync(gen, res) ==
    [variant |-> "Sync", data |-> Some(into_callback_data(gen.output, res)), fut |-> None]

\* convert_res: the CommandResponse made of the function's result, which for
\* an async function is a future.
convert_res(gen, res) ==
    IF gen.asyncness
    THEN [variant |-> IF gen.defer THEN "Deferred" ELSE "Async",
          data |-> None,
          fut |-> Some(Future(into_callback_data(gen.output, res)))]
    ELSE [variant |-> "Sync", data |-> Some(into_callback_data(gen.output, res)),
          fut |-> None]

\* The place of the response in an Err(CommandError::InvalidOption(..)).
NoCommandResponse == [variant |-> "", data |-> None, fut |-> None]

\* An option Discord sends: its name and data.
OptionSent(name) == [name |-> name, data |-> StringOption(<<104, 105>>)]

\* The options of a command received: none, or one for every argument.
OptionsFor(gen) == { <<>>, [k \in 1..Len(gen.opt_name) |-> OptionSent(gen.opt_name[k])] }

\* The generated handler's loop over the options: the option kept for the
\* k-th argument is the last one whose name reaches its arm of the if-else
\* chain, the first arm of that name.
Kept(gen, options, k) ==
    LET mine == { o \in 1..Len(options) :
                    /\ options[o].name = gen.opt_name[k]
                    /\ \A j \in 1..(k - 1) : options[o].name # gen.opt_name[j] }
    IN  IF mine = {} THEN None
        ELSE Some(options[CHOOSE o \in mine : \A p \in mine : p <= o].data)

\* The generated handler from its k-th argument on: from_data, and
\* InvalidOption for the first argument it returns None for.
RECURSIVE FromData(_, _, _, _)
FromData(gen, options, k, res) ==
    IF k > Len(gen.opt_name) THEN [ok |-> TRUE, val |-> convert_res(gen, res), err |-> <<>>]
    ELSE IF from_option(gen.opt_type[k], Kept(gen, options, k), None) = None
    THEN [ok |-> FALSE, val |-> NoCommandResponse, err |-> gen.opt_name[k]]
    ELSE FromData(gen, options, k + 1, res)

\* The handler of the CommandDecl generated, called with these options for a
\* function that returns, or resolves to, res.
Handler(gen, options, res) == FromData(gen, options, 1, res)

\* A function and the arguments of the slash_command attribute on it.
MacroInit ==
    /\ HandlerInit
    /\ item_enum = None
    /\ choices = None
    /\ NoOption
    /\ item_fn \in { Some(i) : i \in Items }
    /\ attr_args \in AttributeArgs(Unwrap(item_fn).inputs)
    /\ expanded = None
    /\ called = None
    /\ command_response = None
    /\ awaited = None

\* slash_command expands.
SlashCommand ==
    /\ IsSome(item_fn)
    /\ expanded = None
    /\ expanded' = Some(slash_command(attr_args, Unwrap(item_fn)))
    /\ UNCHANGED <<buildVars, handlerVars, pc, callVars, item_enum, choices, optionVars,
                   item_fn, attr_args, called, command_response, awaited>>

\* The generated handler is called.
CallHandler(options, res) ==
    /\ IsSome(expanded)
    /\ ~IsError(Unwrap(expanded))
    /\ called = None
    /\ called' = Some([options |-> options, res |-> res])
    /\ command_response' = Some(Handler(Unwrap(expanded), options, res))
    /\ UNCHANGED <<buildVars, handlerVars, pc, callVars, item_enum, choices, optionVars,
                   item_fn, attr_args, expanded, awaited>>

\* The future of an Async or Deferred response is awaited, and resolves.
Await ==
    /\ IsSome(command_response)
    /\ Unwrap(command_response).ok
    /\ IsSome(Unwrap(command_response).val.fut)
    /\ awaited = None
    /\ awaited' = Some(Unwrap(Unwrap(command_response).val.fut).output)
    /\ UNCHANGED <<buildVars, handlerVars, pc, callVars, item_enum, choices, optionVars,
                   item_fn, attr_args, expanded, called, command_response>>

\* The code generated, if slash_command has expanded to code.
Generated ==
    IF expanded = None THEN {}
    ELSE IF IsError(Unwrap(expanded)) THEN {}
    ELSE {Unwrap(expanded)}

MacroNext ==
    \/ SlashCommand
    \/ \E gen \in Generated :
         \E options \in OptionsFor(gen), res \in Returns(gen.output) :
           CallHandler(options, res)
    \/ Await

MacroSpec == MacroInit /\ [][MacroNext]_vars

\* ----------------------------------------------------------------- claims

Callbacks == SelectSeq(sent, LAMBDA q : q.request = "interaction_callback")
Updates == SelectSeq(sent, LAMBDA q : q.request = "update_interaction_original")
Gateway == entry = "handle_event"
Webhook == entry = "handle_request"

\* C1: in handle_event an update_interaction_original request is issued only
\* for a Response with a future, only after the interaction_callback request
\* was issued and had succeeded and after the future resolved, at most once,
\* and with the token of the interaction; a call that returns Ok for a
\* Response with a future has issued exactly one; a Response without a future
\* leads to none.
C1_DeferredReplyOrder ==
    Gateway /\ IsSome(response) =>
        /\ Len(Updates) <= 1
        /\ Unwrap(response).future = None => Updates = <<>>
        /\ Updates # <<>> =>
             /\ Len(sent) = 2
             /\ sent[1].request = "interaction_callback"
             /\ sent[1].status = "ok"
             /\ sent[2].request = "update_interaction_original"
             /\ IsSome(resolved)
             /\ IsSome(Unwrap(response).future)
             /\ sent[2].token = Unwrap(interaction).token
             /\ sent[2].token = sent[1].token
        /\ pc = "ok" /\ IsSome(Unwrap(response).future) => Len(Updates) = 1

\* A deferred reply over the gateway has run to its end: acknowledged, then
\* updated, for the second origin.
C1_Witness ==
    /\ Gateway
    /\ pc = "ok"
    /\ Len(sent) = 2
    /\ sent[2].request = "update_interaction_original"
    /\ sent[2].token = "tokenB"

\* C7: once Handler::handle has returned a Response in handle_event, exactly
\* one interaction_callback request has been issued, it is the first request
\* of the call, it carries the id and token of the interaction and the
\* InteractionResponse of the Response, and handle_event returns Ok only
\* after it succeeded.
C7_OneCallback ==
    Gateway /\ IsSome(response) =>
        /\ Len(Callbacks) = 1
        /\ sent[1].request = "interaction_callback"
        /\ sent[1].id = Unwrap(response).id
        /\ sent[1].token = Unwrap(response).token
        /\ sent[1].response = Unwrap(response).response
        /\ sent[1].id = Unwrap(interaction).id
        /\ sent[1].token = Unwrap(interaction).token
        /\ pc = "ok" => sent[1].status = "ok"

\* handle_event has returned Ok for a command whose handler replied at once.
C7_Witness ==
    /\ Gateway
    /\ pc = "ok"
    /\ calls # <<>>
    /\ Len(sent) = 1
    /\ sent[1].response.type = "ChannelMessageWithSource"
    /\ sent[1].id = 2


\* The entries of command_handlers with the id of the command invoked.
Matching ==
    { n \in 1..Len(command_handlers) :
        command_handlers[n].id = Unwrap(interaction).data.id }

IsCommand == IsSome(interaction) /\ Unwrap(interaction).kind = "ApplicationCommand"

\* C3: for an ApplicationCommand interaction Handler::handle calls the first
\* entry of command_handlers with the command's id, once, and no other entry;
\* when no entry has that id it calls none.
C3_FirstMatchOnly ==
    IsCommand =>
        IF Matching = {}
        THEN calls = <<>>
        ELSE /\ Len(calls) = 1
             /\ calls[1].handler \in Matching
             /\ \A n \in Matching : calls[1].handler <= n

\* Two entries have the id of the command invoked and the first was called.
C3_Witness ==
    /\ IsCommand
    /\ Cardinality(Matching) = 2
    /\ command_handlers[1].kind # command_handlers[2].kind
    /\ calls = <<[handler |-> 1, user_fn |-> TRUE]>>

\* C4: Handler::handle returns a Response for every Interaction it is given
\* and never panics.
C4_AlwaysResponds ==
    IsSome(interaction) => pc # "panic" /\ IsSome(response)

IsComponent ==
    /\ IsSome(interaction)
    /\ Unwrap(interaction).kind = "MessageComponent"
    /\ component_handler

DeferredTypes == {"DeferredChannelMessageWithSource", "DeferredUpdateMessage"}

\* C5: for a MessageComponent interaction with a component handler, Message(data)
\* gives ChannelMessageWithSource(data) and no future, DeferredMessage(f) gives
\* DeferredChannelMessageWithSource(EMPTY_CALLBACK) and f, Update(data) gives
\* UpdateMessage(data) and no future, DeferredUpdate(f) gives
\* DeferredUpdateMessage and f; so the Response has a future exactly when its
\* InteractionResponse is of a deferred type.
C5_ComponentMapping ==
    IsComponent =>
        /\ IsSome(response)
        /\ calls = <<[handler |-> 0, user_fn |-> TRUE]>>
        /\ LET c == user.component
               r == Unwrap(response)
           IN  /\ c.variant = "Message" =>
                     /\ r.response = [type |-> "ChannelMessageWithSource", data |-> c.data]
                     /\ r.future = None
               /\ c.variant = "DeferredMessage" =>
                     /\ r.response = [type |-> "DeferredChannelMessageWithSource",
                                      data |-> Some(EMPTY_CALLBACK)]
                     /\ r.future = c.future
                     /\ IsSome(r.future)
               /\ c.variant = "Update" =>
                     /\ r.response = [type |-> "UpdateMessage", data |-> c.data]
                     /\ r.future = None
               /\ c.variant = "DeferredUpdate" =>
                     /\ r.response = [type |-> "DeferredUpdateMessage", data |-> None]
                     /\ r.future = c.future
                     /\ IsSome(r.future)
               /\ c.variant \in {"Message", "DeferredMessage", "Update", "DeferredUpdate"}
               /\ IsSome(r.future) <=> r.response.type \in DeferredTypes

\* The component handler returned DeferredUpdate and its future went into the
\* Response.
C5_Witness ==
    /\ IsComponent
    /\ user.component.variant = "DeferredUpdate"
    /\ IsSome(response)
    /\ IsSome(Unwrap(response).future)


GuildsWithCommands == { g \in GuildIds : builder.guild_commands[g] # <<>> }

CommandsOf(target) ==
    IF target = 0 THEN builder.global_commands ELSE builder.guild_commands[target]

\* C6: when build() has returned a Handler, it has issued one registration
\* request for the global commands and one for every guild that has commands,
\* each with that list's commands, and all of them succeeded; a registration
\* that failed is the last one issued and build() returned Err, without a
\* Handler.
C6_RegisteredBeforeBuilt ==
    /\ pc = "built" =>
         /\ Len(registrations) = 1 + Cardinality(GuildsWithCommands)
         /\ registrations[1].target = 0
         /\ { registrations[n].target : n \in 2..Len(registrations) } = GuildsWithCommands
         /\ \A n \in 1..Len(registrations) :
              /\ registrations[n].result = "ok"
              /\ registrations[n].commands = CommandsOf(registrations[n].target)
         /\ Len(command_handlers) = NumCommands(builder)
    /\ \A n \in 1..Len(registrations) :
         registrations[n].result # "ok" => n = Len(registrations) /\ pc = "build_err"
    /\ pc \in {"build_err", "build_panic"} => ~ENABLED Next

\* The registration of the first of two guilds failed to decode: build()
\* returned Err and the second guild was never registered.
C6_Witness ==
    /\ pc = "build_err"
    /\ Cardinality(GuildsWithCommands) = 2
    /\ Len(registrations) = 2
    /\ registrations[2].result = "decode"


\* A header value that is the hex of a signature: two hex digits a byte.
IsHexSignature(h) ==
    /\ Len(h) = 2 * SigLen
    /\ \A n \in 1..Len(h) :
         h[n] \in (48..57) \cup (97..102) \cup (65..70)

Lower(h) == [n \in 1..Len(h) |-> IF h[n] >= 65 /\ h[n] <= 70 THEN h[n] + 32 ELSE h[n]]

\* The request carries a signature that the caller's key verifies for its
\* timestamp and body.
WellSigned ==
    /\ request.method = "POST"
    /\ IsSome(request.timestamp)
    /\ IsSome(request.signature)
    /\ IsHexSignature(Unwrap(request.signature))
    /\ \E k \in Keys :
         /\ k = pub_key
         /\ Lower(Unwrap(request.signature)) =
              ToHex(Sign(k, Unwrap(request.timestamp) \o request.body))

\* C2: in handle_request no handler is called, Handler::handle is not given an
\* interaction and the body is not given to serde_json unless the request's
\* signature was verified with the caller's key, successfully.
C2_VerifiedBeforeProcessed ==
    Webhook /\ (calls # <<>> \/ IsSome(interaction) \/ IsSome(response)
                \/ processed.parsed # <<>> \/ processed.ok) =>
        /\ WellSigned
        /\ Len(processed.verified) = 1
        /\ Verify(pub_key, processed.verified[1].message, processed.verified[1].signature)

\* A signed request reached a command handler: its body was parsed and the
\* handler's closure ran.
C2_Witness ==
    /\ Webhook
    /\ WellSigned
    /\ calls # <<>>
    /\ calls[1].user_fn
    /\ processed.parsed = <<request.body>>

\* The status the checks of process give, the first failing one deciding.
Rejects(status) == ~processed.ok /\ processed.status = status

\* C8: process rejects a request that is not a POST with 405; else one without
\* x-signature-timestamp with 400; else one without x-signature-ed25519 with
\* 400; else one whose signature header is not the hex of a signature with
\* 400; else one whose signature does not verify with 401; else one whose
\* body is no Interaction with 400; and returns the interaction otherwise.
C8_StatusOrder ==
    Webhook =>
        IF request.method # "POST" THEN Rejects(405)
        ELSE IF request.timestamp = None THEN Rejects(400)
        ELSE IF request.signature = None THEN Rejects(400)
        ELSE IF ~IsHexSignature(Unwrap(request.signature)) THEN Rejects(400)
        ELSE IF ~WellSigned THEN Rejects(401)
        ELSE IF request.body \notin { Encode(i) : i \in Interactions } THEN Rejects(400)
        ELSE /\ processed.ok
             /\ IsSome(processed.interaction)
             /\ Encode(Unwrap(processed.interaction)) = request.body

\* A posted body that is no Interaction, under a signature that does not
\* verify, is rejected with 401.
C8_Witness ==
    /\ Webhook
    /\ request.method = "POST"
    /\ request.body = Junk
    /\ IsSome(request.signature)
    /\ IsHexSignature(Unwrap(request.signature))
    /\ ~WellSigned
    /\ Rejects(401)

\* C9: when process rejects the request, handle_request returns Ok with an
\* HTTP response of the rejection's status and an empty body, gives no
\* future, does not panic and calls no handler.
C9_RejectionIsOk ==
    Webhook /\ ~processed.ok =>
        /\ pc = "returned"
        /\ IsSome(returned)
        /\ Unwrap(returned).ok
        /\ Unwrap(returned).response.status = processed.status
        /\ Unwrap(returned).response.status \in {400, 401, 405}
        /\ Unwrap(returned).response.body = <<>>
        /\ Unwrap(returned).future = None
        /\ calls = <<>>
        /\ response = None

\* A request with a signature that does not verify was answered 401.
C9_Witness ==
    /\ Webhook
    /\ ~processed.ok
    /\ IsSome(returned)
    /\ Unwrap(returned).response.status = 401

\* C10: process calls verify at most once for a request, with the caller's
\* key, on the timestamp header's bytes followed by the body, against the
\* signature whose hex the x-signature-ed25519 header is.
C10_SingleVerify ==
    Webhook =>
        /\ Len(processed.verified) <= 1
        /\ processed.verified # <<>> =>
             /\ processed.verified[1].key = pub_key
             /\ IsSome(request.timestamp)
             /\ processed.verified[1].message = Unwrap(request.timestamp) \o request.body
             /\ IsSome(request.signature)
             /\ ToHex(processed.verified[1].signature) = Lower(Unwrap(request.signature))

\* verify was called with the second key on a signature given in upper case,
\* and refused it.
C10_Witness ==
    /\ Webhook
    /\ pub_key = 2
    /\ Len(processed.verified) = 1
    /\ Unwrap(request.signature) # Lower(Unwrap(request.signature))
    /\ Rejects(401)

\* ------------------------------------------- claims of the deferred update

\* What a request carries under a name: a field the request was not given is
\* not sent.
Carried(q, name) == IF name \in DOMAIN q THEN q[name] ELSE None

\* C11: the update_interaction_original request run_deferred issues carries
\* the CallbackData the future resolved to, in all six of its fields: content,
\* embeds, allowed_mentions, components, flags and tts.
C11_UpdateCarriesCallback ==
    \A n \in 1..Len(Updates) :
        /\ IsSome(resolved)
        /\ Carried(Updates[n], "content") = Unwrap(resolved).content
        /\ Carried(Updates[n], "embeds") = Some(Unwrap(resolved).embeds)
        /\ Carried(Updates[n], "allowed_mentions") = Unwrap(resolved).allowed_mentions
        /\ Carried(Updates[n], "components") = Unwrap(resolved).components
        /\ Carried(Updates[n], "flags") = Unwrap(resolved).flags
        /\ Carried(Updates[n], "tts") = Unwrap(resolved).tts

\* C18: when the interaction_callback request of handle_event fails, the call
\* ends there with the error: the future of the Response is never polled (it
\* has not resolved), no update_interaction_original request is issued, and
\* no request is issued again (the failed one stays the only request).
C18_FailedCallbackIsFinal ==
    Gateway /\ sent # <<>> /\ sent[1].status = "failed" =>
        /\ pc = "err"
        /\ resolved = None
        /\ Updates = <<>>
        /\ Len(sent) = 1
        /\ sent[1].request = "interaction_callback"

\* The acknowledgement of a deferred reply has failed: the call has ended with
\* the error while the Response still holds its future.
C18_Witness ==
    /\ Gateway
    /\ pc = "err"
    /\ Len(sent) = 1
    /\ sent[1].status = "failed"
    /\ IsSome(response)
    /\ IsSome(Unwrap(response).future)

\* ------------------------------------------------ claims of derive(Choices)

\* b is a plus one in i64, wrapping: the lowest limbs of a that are full are
\* empty in b, the limb above them is one more, and the rest is the same;
\* where every limb of a is full, b is zero.
PlusOne(a, b) ==
    \E k \in 1..(Limbs + 1) :
        /\ \A j \in 1..(k - 1) : a[j] = Limb - 1 /\ b[j] = 0
        /\ k <= Limbs => /\ a[k] < Limb - 1
                         /\ b[k] = a[k] + 1
                         /\ \A j \in (k + 1)..Limbs : b[j] = a[j]

\* The string of the first #[name = "..."] of a variant is str.
NamedBy(variant, str) ==
    \E k \in 1..Len(variant.attrs) :
        /\ variant.attrs[k].path = "name"
        /\ variant.attrs[k].str = str
        /\ \A j \in 1..(k - 1) : variant.attrs[j].path # "name"

\* C12: the CHOICES derive(Choices) generates has one (name, value) pair per
\* variant, in the order of declaration; the name is the string of the
\* variant's #[name = "..."] when it has one and its identifier otherwise;
\* the value is its explicit discriminant when it has one, and otherwise 0
\* for the first variant and the value of the variant before plus one,
\* wrapping in i64.
C12_ChoicesPerVariant ==
    IsSome(choices) /\ Unwrap(choices).error = None =>
        LET item == Unwrap(item_enum)
            pairs == CHOICES(Unwrap(choices))
        IN  /\ Len(pairs) = Len(item)
            /\ \A i \in 1..Len(item) :
                 /\ IF \E k \in 1..Len(item[i].attrs) : item[i].attrs[k].path = "name"
                    THEN NamedBy(item[i], pairs[i][1])
                    ELSE pairs[i][1] = item[i].ident
                 /\ IF IsSome(item[i].discriminant)
                    THEN pairs[i][2] = AsI64(Unwrap(item[i].discriminant))
                    ELSE IF i = 1 THEN pairs[i][2] = <<0, 0, 0, 0>>
                    ELSE PlusOne(pairs[i - 1][2], pairs[i][2])

\* An enum whose first variant has the discriminant i64::MAX and whose second
\* has a #[name] and no discriminant: the second value has wrapped.
C12_Witness ==
    /\ IsSome(choices)
    /\ Unwrap(choices).error = None
    /\ Len(Unwrap(item_enum)) = 2
    /\ Unwrap(item_enum)[1].discriminant = Some(MaxPath)
    /\ Unwrap(item_enum)[2].discriminant = None
    /\ CHOICES(Unwrap(choices))[1] = <<"Bar", I64_MAX>>
    /\ CHOICES(Unwrap(choices))[2] = <<"not an ident!", I64_MIN>>

\* ------------------------------------------------ claims of the option types

\* The quotient and the remainder of a u64 divided by ten, from its i-th limb
\* downwards.
RECURSIVE Div10(_, _, _)
Div10(a, i, rem) ==
    IF i = 0 THEN [q |-> <<>>, r |-> rem]
    ELSE LET cur == rem * Limb + a[i]
             lower == Div10(a, i - 1, cur % 10)
         IN [q |-> Append(lower.q, cur \div 10), r |-> lower.r]

\* The decimal digits of a u64 without leading zeros (none for zero).
RECURSIVE Decimal(_)
Decimal(a) ==
    IF a = <<0, 0, 0, 0>> THEN <<>>
    ELSE LET d == Div10(a, Len(a), 0) IN Append(Decimal(d.q), 48 + d.r)

RECURSIVE StripZeros(_)
StripZeros(ds) == IF ds # <<>> /\ ds[1] = 48 THEN StripZeros(Tail(ds)) ELSE ds

\* The digits of u64::MAX, 18446744073709551615.
MaxDecimal ==
    [i \in 1..20 |->
        48 + <<1, 8, 4, 4, 6, 7, 4, 4, 0, 7, 3, 7, 0, 9, 5, 5, 1, 6, 1, 5>>[i]]

\* The string value is a decimal numeral of the u64 id: digits only, after an
\* optional plus sign, that denote a number of at most u64::MAX, the one id
\* is written as.
ParsesTo(value, id) ==
    LET ds == IF value # <<>> /\ value[1] = 43 THEN Tail(value) ELSE value
        sig == StripZeros(ds)
    IN  /\ ds # <<>>
        /\ \A i \in 1..Len(ds) : ds[i] \in 48..57
        /\ \/ Len(sig) < 20
           \/ /\ Len(sig) = 20
              /\ \/ sig = MaxDecimal
                 \/ \E k \in 1..20 : /\ sig[k] < MaxDecimal[k]
                                     /\ \A j \in 1..(k - 1) : sig[j] = MaxDecimal[j]
        /\ sig = Decimal(id)

\* The list of resolved that holds the entries of a type.
MatchingList(T) ==
    IF option_resolved = None THEN <<>>
    ELSE IF T = "User" THEN Unwrap(option_resolved).users
    ELSE IF T = "InteractionChannel" THEN Unwrap(option_resolved).channels
    ELSE Unwrap(option_resolved).roles

\* The k-th entry of the list has the id the option's string value parses to.
IsNamed(list, k) ==
    /\ option_data # None
    /\ Unwrap(option_data).kind = "String"
    /\ ParsesTo(Unwrap(option_data).value, list[k].id)

\* C13: from_option of User, InteractionChannel and Role returns None when
\* the option is absent, is not a string option, does not parse as a u64,
\* when resolved is None, or when no entry of the matching list of resolved
\* has the parsed id; otherwise it returns the (first) entry of that list
\* whose id is the parsed id.
C13_ResolvedEntryOrNone ==
    IsSome(parsed) /\ option_ty \in {<<"User">>, <<"InteractionChannel">>, <<"Role">>} =>
        LET list == MatchingList(option_ty[1])
        IN  /\ option_data = None => Unwrap(parsed) = None
            /\ option_data # None /\ Unwrap(option_data).kind # "String" =>
                 Unwrap(parsed) = None
            /\ option_resolved = None => Unwrap(parsed) = None
            /\ IF \E k \in 1..Len(list) : IsNamed(list, k)
               THEN \E k \in 1..Len(list) :
                      /\ IsNamed(list, k)
                      /\ \A j \in 1..(k - 1) : ~IsNamed(list, j)
                      /\ Unwrap(parsed) = Some(list[k])
               ELSE Unwrap(parsed) = None

\* A Role was asked for by the string "007", and the second of the resolved
\* roles, the one with id 7, was returned.
C13_Witness ==
    /\ option_ty = <<"Role">>
    /\ option_data = Some(StringOption(<<48, 48, 55>>))
    /\ IsSome(option_resolved)
    /\ Len(Unwrap(option_resolved).roles) = 2
    /\ parsed = Some(Some(Unwrap(option_resolved).roles[2]))
    /\ Unwrap(option_resolved).roles[2].id = <<7, 0, 0, 0>>

\* C14: describe of a type that is no Option sets required to true, and
\* describe of Option<T> returns T's description with required set to false;
\* from_option of Option<T> returns Some(None) when the option is absent,
\* Some(Some(v)) when it is present and T parses it to v, and None when it is
\* present and T does not parse it.
C14_OptionIsOptional ==
    /\ IsSome(described) =>
         IF option_ty[1] = "Option"
         THEN /\ ~Unwrap(described).required
              /\ Unwrap(described) =
                   [describe(Tail(option_ty), Unwrap(described).name,
                             Unwrap(described).description) EXCEPT !.required = FALSE]
         ELSE Unwrap(described).required
    /\ IsSome(parsed) /\ option_ty[1] = "Option" =>
         LET inner == from_option(Tail(option_ty), option_data, option_resolved)
         IN  /\ option_data = None => Unwrap(parsed) = Some(None)
             /\ option_data # None /\ inner # None =>
                  Unwrap(parsed) = Some(Some(Unwrap(inner)))
             /\ option_data # None /\ inner = None => Unwrap(parsed) = None

\* An Option<User> was described, as not required, and its from_option was
\* given a string option that names no resolved user: it returned None.
C14_Witness ==
    /\ option_ty = <<"Option", "User">>
    /\ option_data = Some(StringOption(<<57>>))
    /\ IsSome(option_resolved)
    /\ parsed = Some(None)
    /\ IsSome(described)
    /\ ~Unwrap(described).required
    /\ Unwrap(described).kind = "User"

\* ------------------------------------------------- claims of slash_command

\* The attribute has the argument `defer`.
HasDefer == \E i \in 1..Len(attr_args) : attr_args[i] = Path("defer")

\* C15: slash_command rejects with an error every use of `defer` on a
\* function that is not async, and the handler generated for a function that
\* is not async never returns a Deferred response.
C15_SyncIsNeverDeferred ==
    /\ IsSome(expanded) /\ HasDefer /\ ~Unwrap(item_fn).asyncness =>
         Unwrap(expanded).error # None
    /\ IsSome(command_response) /\ ~Unwrap(item_fn).asyncness =>
         \/ ~Unwrap(command_response).ok
         \/ Unwrap(command_response).val.variant # "Deferred"

\* A function that is not async, with `defer` before an otherwise complete
\* description: the macro has expanded to the error about deferring.
C15_Witness ==
    /\ IsSome(expanded)
    /\ ~Unwrap(item_fn).asyncness
    /\ Unwrap(item_fn).output = "String"
    /\ Len(attr_args) = 2
    /\ attr_args[1] = Path("defer")
    /\ Unwrap(expanded).error = Some("Synchronous slash commands cannot be deferred")

\* The callback data of what the function called returned or resolved to: a
\* CallbackData itself, and for a String the CallbackData with that content
\* and nothing else.
CallbackOfReturn ==
    IF Unwrap(item_fn).output = "String"
    THEN [allowed_mentions |-> <<>>, components |-> <<>>,
          content |-> <<Unwrap(called).res>>, embeds |-> <<>>, flags |-> <<>>,
          tts |-> <<>>]
    ELSE Unwrap(called).res

\* C16: a generated handler that returns a response returns a Sync one, with
\* the callback data of the return value, for a function that is not async,
\* an Async one for an async function without `defer` and a Deferred one for
\* an async function with `defer`; the future of these two resolves to the
\* callback data of the awaited return value.
C16_ResponseKind ==
    IsSome(command_response) /\ Unwrap(command_response).ok =>
        LET r == Unwrap(command_response).val
        IN  IF ~Unwrap(item_fn).asyncness
            THEN /\ r.variant = "Sync"
                 /\ r.data = Some(CallbackOfReturn)
                 /\ r.fut = None
                 /\ awaited = None
            ELSE /\ r.variant = IF HasDefer THEN "Deferred" ELSE "Async"
                 /\ r.data = None
                 /\ IsSome(r.fut)
                 /\ IsSome(awaited) => Unwrap(awaited) = CallbackOfReturn

\* An async function returning a String, with `defer`: the response was a
\* Deferred one, and its future has resolved to the string as content.
C16_Witness ==
    /\ IsSome(command_response)
    /\ Unwrap(command_response).ok
    /\ Unwrap(item_fn).asyncness
    /\ HasDefer
    /\ Unwrap(command_response).val.variant = "Deferred"
    /\ IsSome(awaited)
    /\ Unwrap(awaited).content = Some("Hello!")

\* The string the attribute gives in rename(...) for an identifier, where it
\* gives one: that of the last ident = "..." of that identifier.
RenamedTo(ident, str) ==
    \E i \in 1..Len(attr_args) :
        /\ attr_args[i].meta = "List"
        /\ attr_args[i].ident = "rename"
        /\ \E j \in 1..Len(attr_args[i].nested) :
             /\ attr_args[i].nested[j].ident = ident
             /\ attr_args[i].nested[j].str = str
             /\ \A l \in (j + 1)..Len(attr_args[i].nested) :
                  attr_args[i].nested[l].ident # ident
        /\ \A h \in (i + 1)..Len(attr_args) :
             attr_args[h].meta = "List" /\ attr_args[h].ident = "rename" =>
                 \A l \in 1..Len(attr_args[h].nested) : attr_args[h].nested[l].ident # ident

\* name is the name the k-th parameter is to be registered under: the string
\* of its rename, or else its identifier with a dash for every underscore.
IsNameOf(k, name) ==
    LET ident == Unwrap(item_fn).inputs[k].ident
    IN  IF \E s \in RenameStrings : RenamedTo(ident, s)
        THEN RenamedTo(ident, name)
        ELSE /\ Len(name) = Len(ident)
             /\ \A c \in 1..Len(ident) : name[c] = IF ident[c] = 95 THEN 45 ELSE ident[c]

\* The names a parameter may come to be registered under.
NameSpace(k) ==
    RenameStrings \cup {replace(Unwrap(item_fn).inputs[k].ident, 95, 45)}

\* Every character of the name is a lowercase letter a-z or a dash.
KebabCase(name) == \A c \in 1..Len(name) : name[c] \in (97..122) \cup {45}

\* C17: the name slash_command registers an argument under is the string of
\* its rename(...) when it has one and otherwise its identifier with every
\* underscore replaced by a dash; what the macro expands to without error has
\* only names whose characters are lowercase letters a-z and dashes, and it
\* expands to an error when the name of an argument has another character.
C17_KebabCaseNames ==
    IsSome(expanded) =>
        LET inputs == Unwrap(item_fn).inputs
        IN  /\ Unwrap(expanded).error = None =>
                 /\ Len(Unwrap(expanded).opt_name) = Len(inputs)
                 /\ \A k \in 1..Len(inputs) :
                      /\ IsNameOf(k, Unwrap(expanded).opt_name[k])
                      /\ KebabCase(Unwrap(expanded).opt_name[k])
            /\ (\E k \in 1..Len(inputs) :
                  \E name \in NameSpace(k) : IsNameOf(k, name) /\ ~KebabCase(name)) =>
                 Unwrap(expanded).error # None

\* A function of two parameters, the first renamed to x-y and the second
\* named a_b, has expanded to code that registers x-y and a-b.
C17_Witness ==
    /\ IsSome(expanded)
    /\ Unwrap(expanded).error = None
    /\ Len(Unwrap(item_fn).inputs) = 2
    /\ Unwrap(item_fn).inputs[2].ident = <<97, 95, 98>>
    /\ RenamedTo(Unwrap(item_fn).inputs[1].ident, <<120, 45, 121>>)
    /\ Unwrap(expanded).opt_name = << <<120, 45, 121>>, <<97, 45, 98>> >>

====
